---- MODULE Spec2Model ----
(***************************************************************************)
(* Model of jcvi/graphics/synteny.py: the layout parser (LayoutLine,       *)
(* Layout), the Region renderer, the Shade (link) renderer, the scale bar  *)
(* selection and the Synteny composer that runs them in order.             *)
(*                                                                         *)
(* Numbers.  Canvas coordinates are Python floats in [0,1]; the model      *)
(* keeps them in thousandths (0.5 is 500), which is exact for the inputs   *)
(* drawn here.  The shared scale is maxspan / .65 base pairs per canvas    *)
(* unit; it is carried as maxspan, and a division by scale is written as   *)
(* a multiplication by 650 and a division by maxspan.                      *)
(*                                                                         *)
(* Strings.  A layout row is the list of its comma separated, stripped     *)
(* fields (what row.rstrip().split(",") followed by x.strip() returns);    *)
(* the first field still carries a leading '*', '#' or 'e'.                *)
(***************************************************************************)
EXTENDS Integers, Sequences, FiniteSets, TLC

VARIABLES
    layoutfile,   \* input: the rows of the layout file
    ncols,        \* input: bf.ncols, the number of columns of the block file
    exts,         \* input: bf.get_extent(i, order) of every column i
    data,         \* input: the rows of the block file
    extra,        \* input: extra features are given (--extra)
    bed,          \* input: the features of the bed file, sorted by position
    chr_label,    \* input: the chromosome label is requested
    loc_label,    \* input: the range label is requested
    pc,           \* position inside Synteny.__init__
    error,        \* the exception that ended the composition, "" if none
    lo,           \* the parsed Layout (tracks, edges)
    gg,           \* Synteny.gg, the Anchor Map: (track, accn) -> (a, b)
    ymids,        \* ymids: the y of every Region rendered so far
    rr,           \* Synteny.rr: the tracks whose Region is rendered, in order
    edgeNo,       \* the edge of lo.edges being linked (from 1)
    pairNo,       \* pairs of the current iter_pairs pass already consumed
    draws         \* every draw call issued so far, in order

vars == <<layoutfile, ncols, exts, data, extra, bed, chr_label, loc_label,
          pc, error, lo, gg, ymids, rr, edgeNo, pairNo, draws>>

None == "None"

Abs(n) == IF n < 0 THEN -n ELSE n

(***************************************************************************)
(* float() and int() on the field texts that occur in the layouts below.   *)
(* A text float() accepts has a value num/den; int() accepts fewer texts   *)
(* ("0.5" is a ValueError for int()).                                      *)
(***************************************************************************)
FloatFrac ==
    ( "0"   :> <<0, 1>>  @@ "1"   :> <<1, 1>>  @@ "2"   :> <<2, 1>> @@
      "0.2" :> <<1, 5>>  @@ "0.3" :> <<3, 10>> @@ "0.5" :> <<1, 2>> @@
      "0.6" :> <<3, 5>>  @@ "0.7" :> <<7, 10>> @@
      "45"  :> <<45, 1>> @@ "90"  :> <<90, 1>> @@ "-90" :> <<-90, 1>> @@
      "20"  :> <<20, 1>> @@ "-80" :> <<-80, 1>> @@ "180" :> <<180, 1>> @@
      "40"  :> <<40, 1>> @@ "1.5" :> <<3, 2>> )

IntVal ==
    ( "0" :> 0 @@ "1" :> 1 @@ "2" :> 2 @@ "45" :> 45 @@ "90" :> 90 @@
      "-90" :> -90 @@ "20" :> 20 @@ "-80" :> -80 @@ "180" :> 180 @@
      "40" :> 40 )

IsFloat(s) == s \in DOMAIN FloatFrac
IsInt(s) == s \in DOMAIN IntVal

\* a float in thousandths of a canvas unit
Milli(s) == (FloatFrac[s][1] * 1000) \div FloatFrac[s][2]

\* row[0], the first character of the row, read off its first field
FirstChar(field) ==
    CASE field \in {"#", "#x"} -> "#"
      [] field \in {"e", "edge"} -> "e"
      [] field \in {"*0.5", "*0.2", "*x"} -> "*"
      [] OTHER -> "."

\* row[1:] on the first field of a hidden row
StripStar(field) ==
    CASE field = "*0.5" -> "0.5"
      [] field = "*0.2" -> "0.2"
      [] field = "*x" -> "x"
      [] OTHER -> field

\* a leading '*' is dropped but hides nothing
LayoutLine_NeverHidden(row) ==
    LET args == IF FirstChar(row[1]) = "*"
                THEN <<StripStar(row[1])>> \o Tail(row) ELSE row
        n == Len(args)
    IN  IF ~IsFloat(args[1]) THEN [err |-> "ValueError"]
        ELSE IF n < 2 THEN [err |-> "IndexError"]
        ELSE IF ~IsFloat(args[2]) THEN [err |-> "ValueError"]
        ELSE IF n < 3 THEN [err |-> "IndexError"]
        ELSE IF ~IsInt(args[3]) THEN [err |-> "ValueError"]
        ELSE IF n < 6 THEN [err |-> "IndexError"]
        ELSE IF n > 6 /\ ~IsFloat(args[7]) THEN [err |-> "ValueError"]
        ELSE [err |-> "", hidden |-> FALSE,
              x |-> Milli(args[1]), y |-> Milli(args[2]),
              rotation |-> IntVal[args[3]],
              ha |-> args[4], va |-> args[5], color |-> args[6],
              ratio |-> IF n > 6 THEN FloatFrac[args[7]] ELSE <<1, 1>>,
              label |-> IF n > 7 THEN args[8] ELSE None]

(***************************************************************************)
(* LayoutLine.__init__: a track entry, or the exception the row raises.    *)
(* The fields are read in the order of the code, so the first offending    *)
(* field decides the exception.                                            *)
(***************************************************************************)
LayoutLine(row) ==
    LET hidden == FirstChar(row[1]) = "*"
        args == IF hidden THEN <<StripStar(row[1])>> \o Tail(row) ELSE row
        n == Len(args)
    IN  IF ~IsFloat(args[1]) THEN [err |-> "ValueError"]
        ELSE IF n < 2 THEN [err |-> "IndexError"]
        ELSE IF ~IsFloat(args[2]) THEN [err |-> "ValueError"]
        ELSE IF n < 3 THEN [err |-> "IndexError"]
        ELSE IF ~IsInt(args[3]) THEN [err |-> "ValueError"]
        ELSE IF n < 6 THEN [err |-> "IndexError"]
        ELSE IF n > 6 /\ ~IsFloat(args[7]) THEN [err |-> "ValueError"]
        ELSE [err |-> "",
              hidden |-> hidden,
              x |-> Milli(args[1]),
              y |-> Milli(args[2]),
              rotation |-> IntVal[args[3]],
              ha |-> args[4],
              va |-> args[5],
              color |-> args[6],
              ratio |-> IF n > 6 THEN FloatFrac[args[7]] ELSE <<1, 1>>,
              label |-> IF n > 7 THEN args[8] ELSE None]

\* The edge branch of Layout.__init__ (lines 70-79): (a, b, samearc) or the exception
EdgeLine(row) ==
    LET n == Len(row)
    IN  IF n < 3 THEN [err |-> "ValueError"]
        ELSE IF ~IsInt(row[2]) \/ ~IsInt(row[3]) THEN [err |-> "ValueError"]
        ELSE IF row[1] # "e" THEN [err |-> "AssertionError"]
        ELSE [err |-> "",
              a |-> IntVal[row[2]],
              b |-> IntVal[row[3]],
              samearc |-> IF n = 4 /\ row[4] # "" THEN row[4] ELSE None]

\* AbstractLayout.assign_colors through assign_array: only a track without
\* a color gets one of the palette
assign_colors(tracks) ==
    [k \in DOMAIN tracks |->
        IF tracks[k].color = "" THEN [tracks[k] EXCEPT !.color = "Set2"]
        ELSE tracks[k]]

RECURSIVE LayoutRows(_, _, _)
\* the loop over the rows of Layout.__init__, from row k on
LayoutRows(rows, k, acc) ==
    IF k > Len(rows) THEN acc
    ELSE LET row == rows[k]
             c == FirstChar(row[1])
         IN  IF c = "#" THEN LayoutRows(rows, k + 1, acc)
             ELSE IF c = "e"
             THEN LET e == EdgeLine(row)
                  IN  IF e.err # "" THEN [acc EXCEPT !.err = e.err, !.row = k]
                      ELSE LayoutRows(rows, k + 1,
                             [acc EXCEPT !.edges = Append(@, e)])
             ELSE LET t == LayoutLine(row)
                  IN  IF t.err # "" THEN [acc EXCEPT !.err = t.err, !.row = k]
                      ELSE LayoutRows(rows, k + 1,
                             [acc EXCEPT !.tracks = Append(@, t)])

\* Layout.__init__: the parsed layout, or the exception of the first bad row
Layout(rows) ==
    LET r == LayoutRows(rows, 1, [err |-> "", row |-> 0, tracks |-> <<>>, edges |-> <<>>])
    IN  IF r.err = "" /\ Len(r.tracks) >= 3 /\ Len(r.tracks) <= 8
        THEN [r EXCEPT !.tracks = assign_colors(r.tracks)]
        ELSE r

(***************************************************************************)
(* Program constants, in thousandths of a canvas unit where they are       *)
(* lengths.                                                                *)
(***************************************************************************)
pad == 50
vpad == 15
hpad == 20
height == 12
magic == 40
forward == "b"
backward == "g"

(***************************************************************************)
(* The feature source (Bed) and the extra features, already in memory,     *)
(* sorted by position.  bed[si: ei + 1] is Genes(si, ei); indices start    *)
(* at 1 here.  DupBed has the accession g1 twice.                          *)
(***************************************************************************)
BaseBed ==
    << [accn |-> "g1", start |-> 10000, end |-> 15000, strand |-> "+"],
       [accn |-> "g2", start |-> 20000, end |-> 26000, strand |-> "-"],
       [accn |-> "g3", start |-> 40000, end |-> 50000, strand |-> "+"],
       [accn |-> "g4", start |-> 70000, end |-> 75000, strand |-> "-"] >>

DupBed ==
    << [accn |-> "g1", start |-> 10000, end |-> 15000, strand |-> "+"],
       [accn |-> "g1", start |-> 20000, end |-> 26000, strand |-> "-"],
       [accn |-> "g3", start |-> 40000, end |-> 50000, strand |-> "+"],
       [accn |-> "g4", start |-> 70000, end |-> 75000, strand |-> "-"] >>

extra_bed ==
    << [accn |-> "r1", start |-> 16000, end |-> 19000, strand |-> "+"],
       [accn |-> "r2", start |-> 30000, end |-> 30005, strand |-> "+"] >>

Genes(si, ei) == SubSeq(bed, si, ei)

\* Synteny.__init__ lines 266-271: the extra features inside the extent,
\* without those shorter than a thousandth of the span
ef_pruned(ext) ==
    LET lo_bp == bed[ext.si].start
        hi_bp == bed[ext.ei].end
        Inside(f) == f.start >= lo_bp /\ f.end <= hi_bp
        Keep(f) == (f.end - f.start + 1) * 1000 >= ext.span
    IN  SelectSeq(SelectSeq(extra_bed, Inside), Keep)

(***************************************************************************)
(* Affine2D().rotate_deg_around(x, y, lr) followed by ax.transAxes and     *)
(* then by its inverse: the rotation of a point about the pivot, in axes   *)
(* coordinates.  Cosine and sine are in thousandths.                       *)
(***************************************************************************)
CosMilli ==
    ( 0 :> 1000 @@ 90 :> 0 @@ -90 :> 0 @@ 180 :> -1000 @@ 45 :> 707 @@
      20 :> 940 @@ -80 :> 174 @@ 1 :> 1000 @@ 2 :> 999 @@ 40 :> 766 )

SinMilli ==
    ( 0 :> 0 @@ 90 :> 1000 @@ -90 :> -1000 @@ 180 :> 0 @@ 45 :> 707 @@
      20 :> 342 @@ -80 :> -985 @@ 1 :> 17 @@ 2 :> 35 @@ 40 :> 643 )

Rotate(p, pivot, lr) ==
    LET dx == p[1] - pivot[1]
        dy == p[2] - pivot[2]
    IN  << pivot[1] + (dx * CosMilli[lr] - dy * SinMilli[lr]) \div 1000,
           pivot[2] + (dx * SinMilli[lr] + dy * CosMilli[lr]) \div 1000 >>

\* n / scale for the track, scale = maxspan / .65 / ratio, in thousandths
OverScale(n, maxspan, ratio) ==
    (n * 650 * ratio[1]) \div (maxspan * ratio[2])

\* one draw call on the rendering surface; n is the number a text shows
Draw(op, tid, eid, cls, z, ec, fc, ymid, pts) ==
    [op |-> op, tid |-> tid, eid |-> eid, cls |-> cls, z |-> z,
     ec |-> ec, fc |-> fc, ymid |-> ymid, pts |-> pts, n |-> 0]

(***************************************************************************)
(* Region.__init__ for track tid: the exception it raises, or the         *)
(* Region's y, its gene anchors (self.gg) and the draw calls it issues,    *)
(* in order.  ef is the pruned list of extra features (empty when none     *)
(* were given).                                                            *)
(***************************************************************************)
\* the strand is taken as it is on every track
EffectiveStrand_AsGiven(strand, orientation) == strand

\* lines 167-168: on a '-' track the strand is flipped
EffectiveStrand(strand, orientation) ==
    IF orientation = "-"
    THEN (IF strand = "-" THEN "+" ELSE "-")
    ELSE strand

\* line 174: color = forward if strand == "+" else backward
GlyphColor(strand) == IF strand = "+" THEN forward ELSE backward

\* the label is shifted by pad at every rotation
LabelShift_PadOnly(lr) == pad

\* lines 202-203: cc * pad, cc = abs(lr) / magic if abs(lr) > magic else 1
LabelShift(lr) ==
    IF Abs(lr) > magic THEN (Abs(lr) * pad) \div magic ELSE pad

Region(tid, ext, layout, maxspan, ef, with_chr, with_loc) ==
    LET x == layout.x
        y == layout.y
        ratio == layout.ratio
        lr == layout.rotation
        hidden == layout.hidden
    IN  IF ratio[1] = 0 \/ maxspan = 0
        THEN [err |-> "ZeroDivisionError", y |-> y, gg |-> <<>>, draws |-> <<>>]
        ELSE
    LET flank == OverScale(ext.span, maxspan, ratio) \div 2
        xstart == x - flank
        xend == x + flank
        genes == Genes(ext.si, ext.ei)
        startbp == IF ext.orientation = "-" THEN bed[ext.ei].end
                   ELSE bed[ext.si].start
        cv(t) == xstart + OverScale(Abs(t - startbp), maxspan, ratio)
        tr(p) == Rotate(p, <<x, y>>, lr)
        \* get_coordinates: (x1, x2, a, b)
        get_coordinates(gstart, gend) ==
            << cv(gstart), cv(gend),
               tr(<<cv(gstart), y>>), tr(<<cv(gend), y>>) >>
        gstart(g) == IF g.strand = "-" THEN g.end ELSE g.start
        gend(g) == IF g.strand = "-" THEN g.start ELSE g.end
        strand(g) == EffectiveStrand(g.strand, ext.orientation)
        color(g) == GlyphColor(strand(g))
        coords(g) == get_coordinates(gstart(g), gend(g))
        accns == {genes[k].accn : k \in DOMAIN genes}
        Last(accn) == CHOOSE k \in DOMAIN genes :
                          /\ genes[k].accn = accn
                          /\ \A m \in DOMAIN genes : genes[m].accn = accn => m <= k
        rgg == [accn \in accns |->
                   << coords(genes[Last(accn)])[3], coords(genes[Last(accn)])[4] >>]
        baseline == IF hidden THEN <<>>
                    ELSE << Draw("baseline", tid, 0, "", 1, "gray", "gray", 0,
                                 <<tr(<<xstart, y>>), tr(<<xend, y>>)>>) >>
        glyphs == IF hidden THEN <<>>
                  ELSE [k \in DOMAIN genes |->
                          Draw("gene", tid, 0, genes[k].accn, 3, "", color(genes[k]), 0,
                               <<coords(genes[k])[3], coords(genes[k])[4]>>)]
        extras == [k \in DOMAIN ef |->
                      Draw("extra", tid, 0, ef[k].accn, 2, "", "#ff7f00", 0,
                           << get_coordinates(ef[k].start, ef[k].end)[3],
                              get_coordinates(ef[k].start, ef[k].end)[4] >>)]
        xx == IF layout.ha = "left" THEN xstart - hpad
              ELSE IF layout.ha = "right" THEN xend + hpad
              ELSE x
        ccpad == LabelShift(lr)
        yy == IF layout.va = "top" THEN y + ccpad
              ELSE IF layout.va = "bottom" THEN y - ccpad
              ELSE y
        texts == IF hidden \/ ~with_chr THEN <<>>
                 ELSE IF with_loc
                 THEN << Draw("text", tid, 0, "chr", 10, "", layout.color, 0,
                              << <<xx, yy + vpad>> >>),
                         Draw("text", tid, 0, "loc", 10, "", "lightslategrey", 0,
                              << <<xx, yy - vpad>> >>) >>
                 ELSE << Draw("text", tid, 0, "chr", 10, "", layout.color, 0,
                              << <<xx, yy>> >>) >>
    IN  [err |-> "", y |-> y, gg |-> rgg,
         draws |-> baseline \o glyphs \o extras \o texts]

(***************************************************************************)
(* Shade.__init__: the path of the ribbon and the patch drawn for it.      *)
(***************************************************************************)
Truthy(h) == h # None /\ h # ""

\* the highlight overrides the face color alone
ShadeColors_FillOnly(highlight, ec, fc) ==
    IF Truthy(highlight) THEN <<ec, highlight>> ELSE <<ec, fc>>

\* lines 112-113: a highlight overrides the edge and the face color
ShadeColors(highlight, ec, fc) ==
    IF Truthy(highlight) THEN <<highlight, highlight>> ELSE <<ec, fc>>

\* the way back runs straight from b2 to a2
ShadePath_StraightBack(a, b, ymid) ==
    << <<"M", a[1]>>,
       <<"C4", <<a[1][1], ymid>> >>,
       <<"C4", <<b[1][1], ymid>> >>,
       <<"C4", b[1]>>,
       <<"L", b[2]>>,
       <<"L", a[2]>>,
       <<"CP", a[1]>> >>

\* lines 98-109: pathdata
ShadePath(a, b, ymid) ==
    LET a1 == a[1]
        a2 == a[2]
        b1 == b[1]
        b2 == b[2]
    IN  << <<"M", a1>>,
           <<"C4", <<a1[1], ymid>> >>,
           <<"C4", <<b1[1], ymid>> >>,
           <<"C4", b1>>,
           <<"L", b2>>,
           <<"C4", <<b2[1], ymid>> >>,
           <<"C4", <<a2[1], ymid>> >>,
           <<"C4", a2>>,
           <<"CP", a1>> >>

Shade(a, b, ymid, highlight, ec, fc, zorder) ==
    LET c == ShadeColors(highlight, ec, fc)
    IN  Draw("shade", -1, 0, "", zorder, c[1], c[2], ymid, ShadePath(a, b, ymid))

(***************************************************************************)
(* The block source.  A row of the block file names one gene per column    *)
(* (first for column 0, rest for every other column) and a highlight       *)
(* class h.  iter_pairs(i, j, highlight) runs over the rows in order and   *)
(* yields (gene of i, gene of j, h); with highlight it yields only the     *)
(* rows that carry a highlight class.                                      *)
(***************************************************************************)
HasClass(row) == Truthy(row.h)

iter_rows(rows, highlight) ==
    IF highlight THEN SelectSeq(rows, HasClass) ELSE rows

GeneOf(row, col) == IF col = 0 THEN row.first ELSE row.rest

(***************************************************************************)
(* Synteny.__init__, lines 294-313: the vertical midpoint of the links of  *)
(* edge (i, j, samearc), from the y of the rendered Regions (ys[k + 1] is  *)
(* ymids[k]).                                                              *)
(***************************************************************************)
\* the bias is taken from the second track of the edge
Ymid_FromTarget(ys, i, j, samearc) ==
    IF samearc = "above" THEN ys[j + 1] + 2 * pad
    ELSE IF samearc = "below" THEN ys[j + 1] - 2 * pad
    ELSE (ys[i + 1] + ys[j + 1]) \div 2

\* the bias is one pad instead of two
Ymid_OnePad(ys, i, j, samearc) ==
    IF samearc = "above" THEN ys[i + 1] + pad
    ELSE IF samearc = "below" THEN ys[i + 1] - pad
    ELSE (ys[i + 1] + ys[j + 1]) \div 2

Ymid(ys, i, j, samearc) ==
    IF samearc = "above" THEN ys[i + 1] + 2 * pad
    ELSE IF samearc = "below" THEN ys[i + 1] - 2 * pad
    ELSE (ys[i + 1] + ys[j + 1]) \div 2

\* zorder of the Shade of the first loop (the default of Shade) and of the second
OrdinaryZorder == 1
HighlightZorder == 2

\* line 303 and line 313: the Shade call of each loop
OrdinaryShade(a, b, ymid) ==
    Shade(a, b, ymid, None, "k", "gainsboro", OrdinaryZorder)

HighlightShade(a, b, ymid, h) ==
    Shade(a, b, ymid, h, "k", "k", HighlightZorder)

(***************************************************************************)
(* Scale bar, lines 318-324.  With scale = maxspan / .65,                  *)
(*   abs(x / scale - .12) = abs(65 * x - 12 * maxspan) / (100 * maxspan),  *)
(* so for one maxspan > 0 the distances compare as their numerators.       *)
(***************************************************************************)
candidates ==
    << 1000, 2000, 5000, 10000, 20000, 50000, 100000, 200000, 500000 >>

ScaleDist(x, maxspan) == Abs(65 * x - 12 * maxspan)

\* of two candidates equally close the later one wins
ScaleBarCandidate_LastOfTies(maxspan) ==
    LET C == {candidates[k] : k \in DOMAIN candidates}
    IN  CHOOSE c \in C : \A d \in C :
            \/ ScaleDist(c, maxspan) < ScaleDist(d, maxspan)
            \/ ScaleDist(c, maxspan) = ScaleDist(d, maxspan) /\ c >= d

\* min(dists) over the tuples (dist, x): the least dist, then the least x
ScaleBarCandidate(maxspan) ==
    LET C == {candidates[k] : k \in DOMAIN candidates}
    IN  CHOOSE c \in C : \A d \in C :
            \/ ScaleDist(c, maxspan) < ScaleDist(d, maxspan)
            \/ ScaleDist(c, maxspan) = ScaleDist(d, maxspan) /\ c <= d

\* lines 324-332: the bracket and its label
ScaleBarDraws(maxspan) ==
    LET candidate == ScaleBarCandidate(maxspan)
        dist == (candidate * 650) \div maxspan
        a == 200 - dist \div 2
        b == 200 + dist \div 2
        lsg == "lightslategrey"
    IN  << Draw("scalebar", -1, 0, "cap", 0, lsg, lsg, 0, << <<a, 955>>, <<a, 965>> >>),
           Draw("scalebar", -1, 0, "cap", 0, lsg, lsg, 0, << <<b, 955>>, <<b, 965>> >>),
           Draw("scalebar", -1, 0, "bar", 0, lsg, lsg, 0, << <<a, 960>>, <<b, 960>> >>),
           [Draw("scalebar", -1, 0, "text", 0, "", "", 0, << <<200, 980>> >>)
               EXCEPT !.n = candidate] >>

(***************************************************************************)
(* Inputs.                                                                 *)
(***************************************************************************)
MaxTracks == 2
MaxEdges == 2
MaxData == 2

SeqsUpTo(S, from, to) == UNION {[1..n -> S] : n \in from..to}

InsertAt(L, p, r) == SubSeq(L, 1, p - 1) \o <<r>> \o SubSeq(L, p, Len(L))

\* well-formed track rows: a visible and a hidden one
TrackRows ==
    { <<"0.5", "0.7", "0", "left", "center", "g">>,
      <<"*0.5", "0.3", "0", "left", "center", "g">> }

\* well-formed edge rows; track 2 need not exist
EdgeRows ==
    { <<"e", "0", "1">>,
      <<"e", "0", "1", "above">>,
      <<"e", "1", "0", "below">>,
      <<"e", "0", "0">>,
      <<"e", "0", "2">> }

\* comments, rows with too few or too many fields, rows with a bad number
SpecialRows ==
    { <<"#x", "y", "rotation", "ha", "va", "color", "ratio">>,
      <<"0.5", "0.7", "0", "left", "center">>,
      <<"0.5">>,
      <<"0.5", "0.7", "0", "left", "center", "g", "1", "lab", "junk">>,
      <<"x", "0.7", "0", "left", "center", "g">>,
      <<"*x", "0.7", "0", "left", "center", "g">>,
      <<"0.5", "y", "0", "left", "center", "g">>,
      <<"0.5", "0.7", "0.5", "left", "center", "g">>,
      <<"0.5", "0.7", "0", "left", "center", "g", "big">>,
      <<"e", "0">>,
      <<"e", "0", "1", "above", "junk">>,
      <<"e", "0", "1", "">>,
      <<"e", "0", "1", "up">>,
      <<"0.5", "0.7", "north", "left", "center", "g">>,
      <<"e", "x", "1">>,
      <<"e", "0", "1.5">>,
      <<"edge", "0", "1">> }

ValidLayouts ==
    { T \o E : T \in SeqsUpTo(TrackRows, 1, MaxTracks),
               E \in SeqsUpTo(EdgeRows, 0, MaxEdges) }

BaseLayouts ==
    { << <<"0.5", "0.7", "0", "left", "center", "g">>,
         <<"*0.5", "0.3", "0", "left", "center", "g">>,
         <<"e", "0", "1">>,
         <<"e", "1", "0", "above">> >>,
      << <<"0.2", "0.3", "90", "right", "top", "", "2", "chrA">>,
         <<"0.5", "0.7", "0", "left", "center", "g">>,
         <<"e", "0", "1", "below">> >> }

SpecialLayouts ==
    UNION { { InsertAt(L, p, r) : p \in 1..(Len(L) + 1), r \in SpecialRows } :
            L \in BaseLayouts }

\* rows of the block file: g1 and g2 lie in every extent, g3 only in the
\* wide one, gX is no gene of the bed
DataRows ==
    { [first |-> "g1", rest |-> "g1", h |-> None],
      [first |-> "g2", rest |-> "g2", h |-> "r"],
      [first |-> "gX", rest |-> "g1", h |-> None],
      [first |-> "g2", rest |-> "g3", h |-> "r"] }

DataFiles == SeqsUpTo(DataRows, 0, MaxData)

BaseData ==
    { << [first |-> "g1", rest |-> "g1", h |-> None],
         [first |-> "g2", rest |-> "g2", h |-> "r"] >>,
      << [first |-> "g2", rest |-> "g2", h |-> "r"],
         [first |-> "g1", rest |-> "g2", h |-> None] >> }

\* get_extent: (start, end, si, ei, chr, orientation, span); start and end
\* are bed[si] and bed[ei]
NarrowExtent == [si |-> 1, ei |-> 2, orientation |-> "+", span |-> 16000]

Extents ==
    { NarrowExtent,
      [si |-> 1, ei |-> 4, orientation |-> "-", span |-> 65000] }

Cols == 0..(ncols - 1)

\* line 276: maxspan = max(exts, key=lambda x: x[-1])[-1]
MaxSpan(es) ==
    CHOOSE m \in {es[c].span : c \in DOMAIN es} :
        \A c \in DOMAIN es : es[c].span <= m

\* nothing is parsed, rendered or drawn yet
Start ==
    /\ pc = "layout"
    /\ error = ""
    /\ lo = [tracks |-> <<>>, edges |-> <<>>]
    /\ gg = <<>>
    /\ ymids = <<>>
    /\ rr = <<>>
    /\ edgeNo = 0
    /\ pairNo = 0
    /\ draws = <<>>

Init ==
    /\ ncols \in 1..MaxTracks
    /\ \/ /\ layoutfile \in ValidLayouts \cup SpecialLayouts
          /\ data \in BaseData
          /\ exts = [c \in 0..(ncols - 1) |-> NarrowExtent]
          /\ extra = FALSE
       \/ /\ layoutfile \in BaseLayouts
          /\ data \in DataFiles
          /\ exts \in [0..(ncols - 1) -> Extents]
          /\ extra \in BOOLEAN
    /\ bed = BaseBed
    /\ chr_label = TRUE
    /\ loc_label = TRUE
    /\ Start

Inputs == <<layoutfile, ncols, exts, data, extra, bed, chr_label, loc_label>>

Fail(e) ==
    /\ pc' = "failed"
    /\ error' = e

(***************************************************************************)
(* Synteny.__init__, lines 251-281: everything before the first Region.    *)
(***************************************************************************)
ParseLayout ==
    /\ pc = "layout"
    /\ LET l == Layout(layoutfile)
       IN  IF l.err # ""
           THEN /\ Fail(l.err)
                /\ UNCHANGED lo
           ELSE /\ lo' = [tracks |-> l.tracks, edges |-> l.edges]
                /\ pc' = "regions"
                /\ error' = ""
    /\ UNCHANGED <<Inputs, gg, ymids, rr, edgeNo, pairNo, draws>>

\* line 291: gg.update(dict(((i, k), v) for k, v in r.gg.items()))
MergeAnchors(map, i, rgg) ==
    LET new == {<<i, k>> : k \in DOMAIN rgg}
    IN  [key \in DOMAIN map \cup new |->
            IF key \in new THEN rgg[key[2]] ELSE map[key]]

\* a column too few: the loop of line 283 stops after the first Region
RegionsDone_OneOnly(n) == n >= 1

\* the loop of line 283 has run over every column
RegionsDone(n) == n = ncols

(***************************************************************************)
(* One turn of the loop of lines 283-292: the Region of track Len(rr).     *)
(***************************************************************************)
RenderRegion ==
    /\ pc = "regions"
    /\ ~RegionsDone(Len(rr))
    /\ LET i == Len(rr)
       IN  IF i >= Len(lo.tracks)
           THEN /\ Fail("IndexError")
                /\ UNCHANGED <<gg, ymids, rr, edgeNo, draws>>
           ELSE LET ef == IF extra THEN ef_pruned(exts[i]) ELSE <<>>
                    r == Region(i, exts[i], lo.tracks[i + 1], MaxSpan(exts),
                                ef, chr_label, loc_label)
                IN  IF r.err # ""
                    THEN /\ Fail(r.err)
                         /\ UNCHANGED <<gg, ymids, rr, edgeNo, draws>>
                    ELSE /\ draws' = draws \o r.draws
                         /\ rr' = Append(rr, i)
                         /\ gg' = MergeAnchors(gg, i, r.gg)
                         /\ ymids' = Append(ymids, r.y)
                         /\ error' = ""
                         /\ IF RegionsDone(i + 1)
                            THEN pc' = "links" /\ edgeNo' = 1
                            ELSE pc' = "regions" /\ edgeNo' = edgeNo
    /\ UNCHANGED <<Inputs, lo, pairNo>>

(***************************************************************************)
(* The loops of lines 294-313.  LinkStep is one turn of the loop over      *)
(* iter_pairs(i, j) (highlight FALSE, line 295) or over                    *)
(* iter_pairs(i, j, highlight=True) (line 305) for the current edge.       *)
(***************************************************************************)
LinkStep(highlight) ==
    LET e == lo.edges[edgeNo]
        i == e.a
        j == e.b
        row == iter_rows(data, highlight)[pairNo + 1]
    IN  IF i \notin Cols \/ j \notin Cols
        THEN /\ Fail("IndexError")
             /\ UNCHANGED <<pairNo, draws>>
        ELSE LET ga == GeneOf(row, i)
                 gb == GeneOf(row, j)
             IN  IF <<i, ga>> \notin DOMAIN gg \/ <<j, gb>> \notin DOMAIN gg
                 THEN /\ Fail("KeyError")
                      /\ UNCHANGED <<pairNo, draws>>
                 ELSE LET a == gg[<<i, ga>>]
                          b == gg[<<j, gb>>]
                          ymid == Ymid(ymids, i, j, e.samearc)
                          shade == IF highlight
                                   THEN HighlightShade(a, b, ymid, row.h)
                                   ELSE OrdinaryShade(a, b, ymid)
                          cls == IF highlight THEN "highlight" ELSE "ordinary"
                      IN  /\ draws' = Append(draws,
                                 [shade EXCEPT !.eid = edgeNo, !.cls = cls])
                          /\ pairNo' = pairNo + 1
                          /\ UNCHANGED <<pc, error>>

\* the loop of line 294 stops one edge early
LinksDone_OneEarly == edgeNo >= Len(lo.edges)

\* the loop of line 294 has run over every edge
LinksDone == edgeNo > Len(lo.edges)

\* line 295-303: the next ordinary link of the edge
DrawLink ==
    /\ pc = "links"
    /\ ~LinksDone
    /\ pairNo < Len(iter_rows(data, FALSE))
    /\ LinkStep(FALSE)
    /\ UNCHANGED <<Inputs, lo, gg, ymids, rr, edgeNo>>

\* the loop of line 295 is exhausted: on to the loop of line 305
EndOrdinary ==
    /\ pc = "links"
    /\ ~LinksDone
    /\ pairNo = Len(iter_rows(data, FALSE))
    /\ pc' = "hlinks"
    /\ pairNo' = 0
    /\ UNCHANGED <<Inputs, error, lo, gg, ymids, rr, edgeNo, draws>>

\* line 305-313: the next highlighted link of the edge
DrawHighlight ==
    /\ pc = "hlinks"
    /\ pairNo < Len(iter_rows(data, TRUE))
    /\ LinkStep(TRUE)
    /\ UNCHANGED <<Inputs, lo, gg, ymids, rr, edgeNo>>

\* the loop of line 305 is exhausted: on to the next edge
NextEdge ==
    /\ pc = "hlinks"
    /\ pairNo = Len(iter_rows(data, TRUE))
    /\ pc' = "links"
    /\ edgeNo' = edgeNo + 1
    /\ pairNo' = 0
    /\ UNCHANGED <<Inputs, error, lo, gg, ymids, rr, draws>>

\* lines 315-332: the scalebar option is set; the scale bar, after the last edge
ScaleBar ==
    /\ pc = "links"
    /\ LinksDone
    /\ draws' = draws \o ScaleBarDraws(MaxSpan(exts))
    /\ pc' = "done"
    /\ UNCHANGED <<Inputs, error, lo, gg, ymids, rr, edgeNo, pairNo>>

\* line 315: the scalebar option is not set; the composition ends
Finish ==
    /\ pc = "links"
    /\ LinksDone
    /\ pc' = "done"
    /\ UNCHANGED <<Inputs, error, lo, gg, ymids, rr, edgeNo, pairNo, draws>>

Next ==
    \/ ParseLayout
    \/ RenderRegion
    \/ DrawLink
    \/ EndOrdinary
    \/ DrawHighlight
    \/ NextEdge
    \/ ScaleBar
    \/ Finish

Spec == Init /\ [][Next]_vars

(***************************************************************************)
(* The same composition over many maximum spans, for the scale bar: two    *)
(* tracks, two edges, and every extent with span s.                        *)
(***************************************************************************)
MaxSpanSteps == 300

SpanChoices ==
    {8125 * k : k \in 1..MaxSpanSteps} \cup {7919 * k : k \in 1..MaxSpanSteps}

InitScaleBar ==
    /\ ncols = 2
    /\ \E sp \in SpanChoices :
          exts = [c \in 0..1 |-> [NarrowExtent EXCEPT !.span = sp]]
    /\ layoutfile =
          << <<"0.5", "0.7", "0", "left", "center", "g">>,
             <<"*0.5", "0.3", "0", "left", "center", "g">>,
             <<"e", "0", "1">>,
             <<"e", "1", "0", "above">> >>
    /\ data = << [first |-> "g1", rest |-> "g1", h |-> None],
                 [first |-> "g2", rest |-> "g2", h |-> "r"] >>
    /\ extra = FALSE
    /\ bed = BaseBed
    /\ chr_label = TRUE
    /\ loc_label = TRUE
    /\ Start

SpecScaleBar == InitScaleBar /\ [][Next]_vars

(***************************************************************************)
(* The same composition over the inputs of one Region: the rotation and    *)
(* the label anchor modes of the first track, the labels requested, the    *)
(* extents (a span may be 0) and a bed with a repeated accession.          *)
(***************************************************************************)
RegionTrackRows ==
    { <<"0.5", "0.7", rot, ha, va, "g">> :
        rot \in {"0", "20", "40", "45", "90", "-90", "-80", "180"},
        ha \in {"left", "right", "center"},
        va \in {"top", "bottom", "center"} }

RegionExtents ==
    { [si |-> 1, ei |-> 2, orientation |-> o, span |-> sp] :
        o \in {"+", "-"}, sp \in {0, 16000} }

RegionLayout(t) ==
    << t,
       <<"0.5", "0.3", "0", "left", "center", "g">>,
       <<"e", "0", "1">>,
       <<"e", "1", "0", "above">> >>

InitRegion ==
    /\ ncols = 2
    /\ chr_label \in BOOLEAN
    /\ loc_label \in BOOLEAN
    /\ \/ /\ \E t \in RegionTrackRows : layoutfile = RegionLayout(t)
          /\ exts = [c \in 0..1 |-> NarrowExtent]
          /\ bed = BaseBed
       \/ /\ layoutfile = RegionLayout(<<"0.5", "0.7", "0", "left", "center", "g">>)
          /\ exts \in [0..1 -> RegionExtents]
          /\ bed \in {BaseBed, DupBed}
    /\ data = << [first |-> "g1", rest |-> "g1", h |-> None],
                 [first |-> "g2", rest |-> "g2", h |-> "r"] >>
    /\ extra = FALSE
    /\ Start

SpecRegion == InitRegion /\ [][Next]_vars

(***************************************************************************)
(* Claims.                                                                 *)
(***************************************************************************)
Shades == {k \in DOMAIN draws : draws[k].op = "shade"}

LinkDrawn == Shades # {}

\* the Region of track i as the composer builds it (lines 284-288)
RegionOf(i) ==
    Region(i, exts[i], lo.tracks[i + 1], MaxSpan(exts),
           IF extra THEN ef_pruned(exts[i]) ELSE <<>>, chr_label, loc_label)

\* the anchors of the Regions of all columns, keyed by (track, accn)
AllAnchors ==
    LET keys == {<<i, bed[k].accn>> : i \in Cols, k \in DOMAIN bed}
        inext == {key \in keys :
                    \E k \in exts[key[1]].si .. exts[key[1]].ei :
                        bed[k].accn = key[2]}
    IN  [key \in inext |-> RegionOf(key[1]).gg[key[2]]]

\* C1: in every state in which a link has been drawn, the Regions of the
\* tracks 0..ncols-1 have been rendered in that order, and the Anchor Map is
\* the map of all their anchors: complete before the first link, and the
\* same in every later state, so never written after it.
C1_RegionsBeforeLinks ==
    LinkDrawn =>
        /\ rr = [k \in 1..ncols |-> k - 1]
        /\ ymids = [k \in 1..ncols |-> lo.tracks[k].y]
        /\ gg = AllAnchors

\* a composition of two tracks that has drawn a link and ended
C1_Witness ==
    /\ pc = "done"
    /\ ncols = 2
    /\ LinkDrawn
    /\ Cardinality(DOMAIN gg) >= 4

\* the edge rows of the layout file, in file order
IsEdgeRow(row) == FirstChar(row[1]) = "e"

FileEdges == SelectSeq(layoutfile, IsEdgeRow)

\* the number of links of class cls drawn for edge e
NumShades(e, cls) ==
    Cardinality({k \in Shades : draws[k].eid = e /\ draws[k].cls = cls})

\* C2: links are drawn edge by edge in the order of the edge rows of the
\* layout; within an edge no ordinary link follows a highlighted one; a scale
\* bar draw comes after every link, and by then every pair of every edge
\* has its link.
C2_EdgeOrder ==
    /\ \A p, q \in Shades :
         p < q =>
            /\ draws[p].eid <= draws[q].eid
            /\ draws[p].eid = draws[q].eid =>
                 ~(draws[p].cls = "highlight" /\ draws[q].cls = "ordinary")
    /\ \A p \in Shades :
         LET e == draws[p].eid
         IN  /\ e \in 1..Len(FileEdges)
             /\ lo.edges[e].a = IntVal[FileEdges[e][2]]
             /\ lo.edges[e].b = IntVal[FileEdges[e][3]]
    /\ \A p \in DOMAIN draws :
         draws[p].op = "scalebar" =>
            /\ \A q \in Shades : q < p
            /\ \A e \in 1..Len(FileEdges) :
                  /\ NumShades(e, "ordinary") = Len(iter_rows(data, FALSE))
                  /\ NumShades(e, "highlight") = Len(iter_rows(data, TRUE))

\* two edges, each with an ordinary and a highlighted link, then the scale bar
C2_Witness ==
    /\ pc = "done"
    /\ Len(lo.edges) = 2
    /\ \A e \in 1..2 : NumShades(e, "ordinary") >= 1 /\ NumShades(e, "highlight") >= 1
    /\ \E p \in DOMAIN draws : draws[p].op = "scalebar"

\* the highlight class of the pair that link p (a highlighted one) was drawn for
ClassOf(p) ==
    LET e == draws[p].eid
        k == Cardinality({q \in Shades : q <= p /\ draws[q].eid = e
                                          /\ draws[q].cls = "highlight"})
    IN  iter_rows(data, TRUE)[k].h

\* C3: a highlighted link has edge color and face color equal to the
\* highlight class of its pair, and a zorder above that of every ordinary
\* link of every edge.
C3_HighlightOnTop ==
    \A p \in Shades :
        draws[p].cls = "highlight" =>
            /\ draws[p].ec = ClassOf(p)
            /\ draws[p].fc = ClassOf(p)
            /\ Truthy(ClassOf(p))
            /\ \A q \in Shades :
                  draws[q].cls = "ordinary" => draws[p].z > draws[q].z

\* a highlighted link of the first edge, then an ordinary link of the second
C3_Witness ==
    \E p, q \in Shades :
        /\ p < q
        /\ draws[p].cls = "highlight" /\ draws[p].eid = 1
        /\ draws[q].cls = "ordinary" /\ draws[q].eid = 2

\* the baseline y of track i: the y of its layout entry
BaselineY(i) == lo.tracks[i + 1].y

\* C4: the ymid of every link of edge (i, j, arc_bias) is baseline(i) + 2 pad
\* for "above", baseline(i) - 2 pad for "below", and otherwise the mean of
\* the two baselines.
C4_Ymid ==
    \A p \in Shades :
        LET e == lo.edges[draws[p].eid]
            yi == BaselineY(e.a)
            yj == BaselineY(e.b)
        IN  /\ e.samearc = "above" => draws[p].ymid = yi + 2 * pad
            /\ e.samearc = "below" => draws[p].ymid = yi - 2 * pad
            /\ e.samearc \notin {"above", "below"} => 2 * draws[p].ymid = yi + yj

\* links of an "above" edge and of an unbiased edge between tracks of
\* different baselines, one ordinary and one highlighted
C4_Witness ==
    /\ \E p \in Shades :
         LET e == lo.edges[draws[p].eid]
         IN  /\ e.samearc = "above"
             /\ BaselineY(e.a) # BaselineY(e.b)
             /\ draws[p].cls = "highlight"
    /\ \E p \in Shades :
         LET e == lo.edges[draws[p].eid]
         IN  /\ e.samearc = None
             /\ BaselineY(e.a) # BaselineY(e.b)
             /\ draws[p].cls = "ordinary"

\* C5 as stated: with "above" the ymid is above both baselines by exactly
\* 2 pad, with "below" it is below both by exactly 2 pad.
C5_BothBaselines ==
    \A p \in Shades :
        LET e == lo.edges[draws[p].eid]
            yi == BaselineY(e.a)
            yj == BaselineY(e.b)
        IN  /\ e.samearc = "above" =>
                 draws[p].ymid - yi = 2 * pad /\ draws[p].ymid - yj = 2 * pad
            /\ e.samearc = "below" =>
                 yi - draws[p].ymid = 2 * pad /\ yj - draws[p].ymid = 2 * pad

\* C5 amended: with "above" the ymid is strictly above the baseline of the
\* first track of the edge by exactly 2 pad, with "below" strictly below it
\* by 2 pad; the same holds of the second track exactly when the two
\* baselines are equal.
C5_SourceBaseline ==
    \A p \in Shades :
        LET e == lo.edges[draws[p].eid]
            yi == BaselineY(e.a)
            yj == BaselineY(e.b)
        IN  /\ e.samearc = "above" =>
                 /\ draws[p].ymid > yi
                 /\ draws[p].ymid - yi = 2 * pad
                 /\ (draws[p].ymid - yj = 2 * pad) <=> (yj = yi)
            /\ e.samearc = "below" =>
                 /\ draws[p].ymid < yi
                 /\ yi - draws[p].ymid = 2 * pad
                 /\ (yj - draws[p].ymid = 2 * pad) <=> (yj = yi)

\* an "above" link and a "below" link, each between two different baselines
C5_Witness ==
    /\ \E p \in Shades :
         LET e == lo.edges[draws[p].eid]
         IN  e.samearc = "above" /\ BaselineY(e.a) # BaselineY(e.b)
    /\ \E p \in Shades :
         LET e == lo.edges[draws[p].eid]
         IN  e.samearc = "below" /\ BaselineY(e.a) # BaselineY(e.b)

\* C6 as stated: a rendered hidden track has an anchor for every gene of its
\* index range, and no draw call at all.
C6_HiddenDrawsNothing ==
    \A i \in Cols :
        (i + 1 <= Len(rr) /\ lo.tracks[i + 1].hidden) =>
            /\ \A k \in exts[i].si .. exts[i].ei : <<i, bed[k].accn>> \in DOMAIN gg
            /\ \A p \in DOMAIN draws : draws[p].tid # i

\* C7 as stated: a pair whose gene has no anchor is skipped, so no
\* composition ends on the missing key.
C7_MissingAnchorSkipped ==
    ~(pc = "failed" /\ error = "KeyError")

\* an edge of the parsed layout names a track that is no entry of the layout
BadEdge ==
    \E k \in DOMAIN lo.edges :
        \/ lo.edges[k].a \notin 0..(Len(lo.tracks) - 1)
        \/ lo.edges[k].b \notin 0..(Len(lo.tracks) - 1)

\* C8 as stated: with such an edge in the layout the composition fails, and
\* no link of any edge is drawn.
C8_BadEdgeBeforeLinks ==
    BadEdge => ~LinkDrawn /\ pc # "done"

\* the fields of a track row, without the leading '*'
TrackArgs(row) ==
    IF FirstChar(row[1]) = "*" THEN <<StripStar(row[1])>> \o Tail(row) ELSE row

IsComment(row) == FirstChar(row[1]) = "#"

TooFew(row) ==
    IF IsEdgeRow(row) THEN Len(row) < 3 ELSE Len(row) < 6

TooMany(row) ==
    IF IsEdgeRow(row) THEN Len(row) > 4 ELSE Len(row) > 8

\* a field that is present and that float(), or int(), does not accept
NotFloat(args, k) == k <= Len(args) /\ ~IsFloat(args[k])
NotInt(args, k) == k <= Len(args) /\ ~IsInt(args[k])

\* x and y are read with float() (lines 45-46), the rotation and both
\* indices of an edge with int() (lines 47 and 77)
NonNumeric(row) ==
    IF IsEdgeRow(row)
    THEN NotInt(row, 2) \/ NotInt(row, 3)
    ELSE \/ NotFloat(TrackArgs(row), 1)
         \/ NotFloat(TrackArgs(row), 2)
         \/ NotInt(TrackArgs(row), 3)

HasRow(Test(_)) ==
    \E k \in DOMAIN layoutfile : ~IsComment(layoutfile[k]) /\ Test(layoutfile[k])

\* the layout parse raised, and nothing was drawn
ParseFailed ==
    /\ Layout(layoutfile).err # ""
    /\ pc # "layout" => pc = "failed" /\ draws = <<>> /\ rr = <<>>

\* C9 as stated: a row with too few or too many fields, or with an x, y,
\* rotation or edge index that its conversion does not accept, makes the
\* parse fail before any draw call.  A track row of 9 fields and an edge
\* row of 5 fields parse, and the composition draws.
C9_AnyMalformedRow ==
    (HasRow(TooFew) \/ HasRow(TooMany) \/ HasRow(NonNumeric)) => ParseFailed

\* the part of C9 the code keeps: a row with too few fields, or with an
\* x, y, rotation or edge index that its conversion does not accept
\* (float() for x and y, int() for the rotation and the edge indices),
\* makes the parse fail before any draw call.
TooFewOrNonNumericFails ==
    (HasRow(TooFew) \/ HasRow(NonNumeric)) => ParseFailed

\* the position of candidate c in the list
CandidateIndex(c) == CHOOSE k \in DOMAIN candidates : candidates[k] = c

\* C10: the length the scale bar shows is a candidate of the list at least
\* as close to .12 (as length / scale) as every other candidate, and the
\* first of the list among the equally close; scale = maxspan / .65, so
\* abs(c / scale - .12) is abs(65 c - 12 maxspan) / (100 maxspan).
C10_ScaleBarChoice ==
    \A p \in DOMAIN draws :
        (draws[p].op = "scalebar" /\ draws[p].cls = "text") =>
            LET m == MaxSpan(exts)
                c == draws[p].n
            IN  /\ \E k \in DOMAIN candidates : candidates[k] = c
                /\ \A k \in DOMAIN candidates :
                      /\ Abs(65 * c - 12 * m) <= Abs(65 * candidates[k] - 12 * m)
                      /\ Abs(65 * c - 12 * m) = Abs(65 * candidates[k] - 12 * m)
                           => CandidateIndex(c) <= k

\* a scale bar for a maximum span at which 50000 and 100000 are equally close
C10_Witness ==
    /\ pc = "done"
    /\ MaxSpan(exts) = 406250
    /\ \E p \in DOMAIN draws :
          draws[p].op = "scalebar" /\ draws[p].cls = "text" /\ draws[p].n = 50000

\* the draw calls of operation op issued for track i, in order
DrawsOf(op, i) ==
    LET Test(d) == d.op = op /\ d.tid = i
    IN  SelectSeq(draws, Test)

\* track i is rendered and not hidden
Visible(i) == i + 1 <= Len(rr) /\ ~lo.tracks[i + 1].hidden

\* C11: on every rendered visible track the glyph of a feature has the
\* forward color exactly when its strand is '+' on a '+' track or '-' on a
\* '-' track, and the reverse color otherwise; so a flip of the track
\* orientation swaps every color and a flip of both leaves it.
C11_StrandColor ==
    \A i \in Cols :
        Visible(i) =>
            LET G == DrawsOf("gene", i)
                si == exts[i].si
            IN  /\ Len(G) = exts[i].ei - si + 1
                /\ \A k \in DOMAIN G :
                      /\ G[k].cls = bed[si + k - 1].accn
                      /\ G[k].fc \in {forward, backward}
                      /\ G[k].fc = forward <=>
                           ((bed[si + k - 1].strand = "+") <=> (exts[i].orientation = "+"))

\* a '-' track with the glyph of a '-' feature in the forward color and of
\* a '+' feature in the reverse color
C11_Witness ==
    \E i \in Cols :
        /\ Visible(i)
        /\ exts[i].orientation = "-"
        /\ \E k, m \in DOMAIN DrawsOf("gene", i) :
              /\ bed[exts[i].si + k - 1].strand = "-"
              /\ DrawsOf("gene", i)[k].fc = forward
              /\ bed[exts[i].si + m - 1].strand = "+"
              /\ DrawsOf("gene", i)[m].fc = backward

\* C12 as stated: the anchor recorded under (track, feature id) is the one
\* of the first feature of the track with that id; a later feature with
\* the same id is rejected or leaves it as it is.
C12_FirstInsertionKept ==
    \A p \in DOMAIN draws :
        (/\ draws[p].op = "gene"
         /\ <<draws[p].tid, draws[p].cls>> \in DOMAIN gg
         /\ \A q \in 1..(p - 1) :
               ~(draws[q].op = "gene" /\ draws[q].tid = draws[p].tid
                                      /\ draws[q].cls = draws[p].cls))
        => gg[<<draws[p].tid, draws[p].cls>>] = draws[p].pts

IsTrackRow(row) == ~IsComment(row) /\ ~IsEdgeRow(row)

\* C13: after a parse that raised nothing, the tracks are the rows that
\* start with neither '#' nor 'e', in row order, and the edges are the rows
\* that start with 'e', in row order; a track is hidden exactly when its
\* row starts with '*', its fields are those of the row without the '*',
\* the ratio is 1 and the label none when the row has no such field.
C13_RowClasses ==
    (pc # "layout" /\ Layout(layoutfile).err = "") =>
        LET T == SelectSeq(layoutfile, IsTrackRow)
            E == SelectSeq(layoutfile, IsEdgeRow)
        IN  /\ Len(lo.tracks) = Len(T)
            /\ Len(lo.edges) = Len(E)
            /\ \A k \in DOMAIN T :
                  LET t == lo.tracks[k]
                      args == TrackArgs(T[k])
                  IN  /\ t.hidden <=> FirstChar(T[k][1]) = "*"
                      /\ t.x = Milli(args[1])
                      /\ t.y = Milli(args[2])
                      /\ t.rotation = IntVal[args[3]]
                      /\ t.ha = args[4]
                      /\ t.va = args[5]
                      /\ \/ t.color = args[6]
                         \/ args[6] = "" /\ Len(T) \in 3..8
                      /\ t.ratio = IF Len(args) > 6 THEN FloatFrac[args[7]] ELSE <<1, 1>>
                      /\ t.label = IF Len(args) > 7 THEN args[8] ELSE None
            /\ \A k \in DOMAIN E :
                  /\ lo.edges[k].a = IntVal[E[k][2]]
                  /\ lo.edges[k].b = IntVal[E[k][3]]
                  /\ lo.edges[k].samearc =
                        IF Len(E[k]) = 4 /\ E[k][4] # "" THEN E[k][4] ELSE None

\* a parsed layout with a comment or an edge row between its first track
\* row and its hidden second one
C13_Witness ==
    /\ pc = "regions"
    /\ Len(layoutfile) >= 4
    /\ \/ IsComment(layoutfile[2])
       \/ IsEdgeRow(layoutfile[2])
    /\ IsTrackRow(layoutfile[3])
    /\ FirstChar(layoutfile[3][1]) = "*"
    /\ Len(lo.tracks) = 2
    /\ lo.tracks[2].hidden
    /\ lo.tracks[2].ratio = <<1, 1>>
    /\ lo.tracks[2].label = None

\* C14 as stated: a track whose extent has span 0, and every track when
\* the maximum span is 0, is never drawn: the composition fails instead.
C14_DegenerateNotDrawn ==
    \A i \in Cols :
        (exts[i].span = 0 \/ MaxSpan(exts) = 0) =>
            /\ \A p \in DOMAIN draws : draws[p].tid # i
            /\ pc # "done"

Min(a, b) == IF a <= b THEN a ELSE b
Max(a, b) == IF a >= b THEN a ELSE b

\* the chromosome label drawn for track i, when there is one
HasChrText(i) == \E p \in DOMAIN draws :
    draws[p].op = "text" /\ draws[p].tid = i /\ draws[p].cls = "chr"

ChrText(i) == CHOOSE d \in {draws[p] : p \in DOMAIN draws} :
    d.op = "text" /\ d.tid = i /\ d.cls = "chr"

\* ly - y: the height of the label anchor over the baseline of track i,
\* read off the chromosome label (drawn at ly + vpad beside a range label,
\* at ly alone)
LabelOffset(i) ==
    LET ty == ChrText(i).pts[1][2]
        ly == IF Len(DrawsOf("text", i)) = 2 THEN ty - vpad ELSE ty
    IN  ly - lo.tracks[i + 1].y

\* the offset for a shift of m: up for 'top', down for 'bottom', else none
OffsetFor(va, m) ==
    IF va = "top" THEN m ELSE IF va = "bottom" THEN 0 - m ELSE 0

\* C15 as stated: the label offset is pad * min(1, |rotation| / 40), up
\* for 'top', down for 'bottom', zero otherwise, and never more than pad.
C15_OffsetMin ==
    \A i \in Cols :
        HasChrText(i) =>
            LET t == lo.tracks[i + 1]
            IN  /\ LabelOffset(i) =
                     OffsetFor(t.va, Min(pad, (Abs(t.rotation) * pad) \div magic))
                /\ Abs(LabelOffset(i)) <= pad

\* C15 amended: the label offset is pad * max(1, |rotation| / 40), up for
\* 'top', down for 'bottom', zero otherwise; for 'top' and 'bottom' its
\* magnitude is never less than pad.
C15_OffsetMax ==
    \A i \in Cols :
        HasChrText(i) =>
            LET t == lo.tracks[i + 1]
            IN  /\ LabelOffset(i) =
                     OffsetFor(t.va, Max(pad, (Abs(t.rotation) * pad) \div magic))
                /\ t.va \in {"top", "bottom"} => Abs(LabelOffset(i)) >= pad

\* a label over a track rotated by 90 degrees, more than two pads up
C15_Witness ==
    /\ HasChrText(0)
    /\ lo.tracks[1].rotation = 90
    /\ lo.tracks[1].va = "top"
    /\ LabelOffset(0) > 2 * pad

\* ly of track i: the y of its label anchor
LabelAnchorY(i) ==
    LET t == lo.tracks[i + 1]
    IN  t.y + OffsetFor(t.va, LabelShift(t.rotation))

\* the heights of the labels drawn for track i, in order
TextYs(i) ==
    LET T == DrawsOf("text", i)
    IN  [k \in DOMAIN T |-> T[k].pts[1][2]]

\* C16 as stated: a rendered visible track with both labels requested has
\* one label at the anchor plus vpad and the other at the anchor minus
\* vpad; with exactly one of them requested it has that one label at the
\* anchor.
C16_OneLabelAtAnchor ==
    \A i \in Cols :
        Visible(i) =>
            /\ (chr_label /\ loc_label) =>
                  TextYs(i) = <<LabelAnchorY(i) + vpad, LabelAnchorY(i) - vpad>>
            /\ (chr_label # loc_label) =>
                  TextYs(i) = <<LabelAnchorY(i)>>

\* C17: the path of every ribbon is move a1, curve (a1.x, ymid), curve
\* (b1.x, ymid), curve b1, line b2, curve (b2.x, ymid), curve (a2.x, ymid),
\* curve a2, close at a1, where (a1, a2) and (b1, b2) are anchors of the
\* Anchor Map and ymid is the ribbon's.
C17_RibbonPath ==
    \A p \in DOMAIN draws :
        draws[p].op = "shade" =>
            LET P == draws[p].pts
                ymid == draws[p].ymid
            IN  /\ Len(P) = 9
                /\ [k \in 1..9 |-> P[k][1]] =
                     <<"M", "C4", "C4", "C4", "L", "C4", "C4", "C4", "CP">>
                /\ \E ka, kb \in DOMAIN gg :
                      LET a1 == gg[ka][1]
                          a2 == gg[ka][2]
                          b1 == gg[kb][1]
                          b2 == gg[kb][2]
                      IN  [k \in 1..9 |-> P[k][2]] =
                            << a1, <<a1[1], ymid>>, <<b1[1], ymid>>, b1,
                               b2, <<b2[1], ymid>>, <<a2[1], ymid>>, a2, a1 >>

\* a ribbon between two different anchors, bent away from both of them
C17_Witness ==
    \E p \in DOMAIN draws :
        /\ draws[p].op = "shade"
        /\ draws[p].pts[1][2] # draws[p].pts[4][2]
        /\ draws[p].pts[1][2] # draws[p].pts[8][2]
        /\ draws[p].pts[2][2] # draws[p].pts[1][2]
        /\ draws[p].pts[3][2] # draws[p].pts[4][2]
        /\ draws[p].pts[2][2][1] # draws[p].pts[7][2][1]

====
